---- MODULE Spec2Model ----
(***************************************************************************)
(* Model of xltemplate/schema.py: the TableSchema dataclass                *)
(* (column_names, groups) with empty_df, validate_df and __len__.          *)
(*                                                                         *)
(* Python values are records tagged with their type in the field "kind";   *)
(* the outcome of a call is either a returned value or a raised exception. *)
(***************************************************************************)
EXTENDS Integers, Sequences, FiniteSets, TLC

\* ------------------------------------------------------------------ bounds

\* Longest column_names list (and longest column-label list of an input).
MaxCols == 2
\* Largest n_rows passed to empty_df; the smallest is -1.
MaxRows == 2
\* Longest groups list.
MaxGroups == 1

Names == {"A", "B"}
GroupLabels == {"G"}

RECURSIVE SeqsUpTo(_, _)
SeqsUpTo(S, n) ==
    IF n = 0 THEN { <<>> }
    ELSE LET shorter == SeqsUpTo(S, n - 1)
         IN  shorter \cup { Append(s, x) : s \in { t \in shorter : Len(t) = n - 1 }, x \in S }

ColumnLists == SeqsUpTo(Names, MaxCols)
RowCounts == (-1) .. MaxRows

\* ----------------------------------------------------------- Python values

None == [kind |-> "NoneType"]
PyBool(b) == [kind |-> "bool", v |-> b]
PyInt(n) == [kind |-> "int", v |-> n]
PyListOf(items) == [kind |-> "list", items |-> items]
PyTuple(items) == [kind |-> "tuple", items |-> items]
PdIndex(items) == [kind |-> "Index", items |-> items]

\* A (group_name, span) tuple.
Group(label, span) == PyTuple(<<label, span>>)

\* The outcome of a call.
Return(v) == [tag |-> "return", value |-> v]
Raise(e) == [tag |-> "raise", exc |-> e]

\* Kinds that Python can iterate over, in order.
IterableKinds == {"list", "tuple", "Index", "range"}

\* list(x): a new list of x's elements in order; TypeError if x is not iterable.
PyList(x) ==
    IF x.kind \in IterableKinds THEN Return(PyListOf(x.items))
    ELSE Raise("TypeError")

\* a == b on built-in values: a list never equals a tuple or an Index.
PyEq(a, b) == a.kind = b.kind /\ a = b

\* len(x) of a list.
PyLen(x) == PyInt(Len(x.items))

\* range(n): 0, 1, ..., n-1 (empty when n <= 0).
PyRange(n) == [kind |-> "range", items |-> [i \in 1 .. n |-> i - 1]]

\* pandas.DataFrame(index=index, columns=columns) without data: the column
\* labels become an Index, the rows are the index labels (none when index is
\* None), every cell is NaN.
PdDataFrame(index, columns) ==
    LET rows == IF index = None THEN <<>> ELSE index.items
    IN  [kind    |-> "DataFrame",
         columns |-> PdIndex(columns.items),
         index   |-> rows,
         values  |-> [r \in 1 .. Len(rows) |-> [c \in 1 .. Len(columns.items) |-> "NaN"]]]

\* An object that is not a DataFrame, with or without a "columns" attribute.
PyObject(has, cols) == [kind |-> "object", has_columns |-> has, columns |-> cols]

\* hasattr(df, "columns")
HasColumns(df) == IF df.kind = "DataFrame" THEN TRUE
                  ELSE IF df.kind = "object" THEN df.has_columns
                  ELSE FALSE

\* ------------------------------------------------------------------ inputs

\* groups: None, or a list of at most MaxGroups (group_name, span) tuples whose
\* spans range over the possible column counts.
GroupValues ==
    { None } \cup
    { PyListOf(g) : g \in SeqsUpTo({ Group(l, s) : l \in GroupLabels, s \in 1 .. MaxCols }, MaxGroups) }

\* Values handed to validate_df: DataFrames, duck-typed objects whose columns
\* attribute is a list or a tuple, an object whose columns attribute is an
\* int, and an object without the attribute.
ValidateInputs ==
    { PdDataFrame(None, PyListOf(c)) : c \in ColumnLists }
    \cup { PyObject(TRUE, PyListOf(c)) : c \in ColumnLists }
    \cup { PyObject(TRUE, PyTuple(c)) : c \in ColumnLists }
    \cup { PyObject(TRUE, PyInt(5)), PyObject(FALSE, None) }

\* ------------------------------------------------------------------- state

VARIABLES
    self,              \* the TableSchema instance, None before it is constructed
    pandas_installed,  \* whether "import pandas" succeeds in this environment
    call,              \* the last call made, with its arguments
    result,            \* the outcome of the last call
    last_df            \* the last DataFrame empty_df returned, None if none yet

vars == <<self, pandas_installed, call, result, last_df>>

Call(op, args) == [op |-> op, args |-> args]

\* -------------------------------------------------------------- TableSchema

RECURSIVE SpanSum(_)
SpanSum(gs) == IF gs = <<>> THEN 0 ELSE Head(gs).items[2] + SpanSum(Tail(gs))

\* A constructor that rejects groups whose spans do not add up to the number
\* of columns.
TableSchema_checking_spans(column_names, groups) ==
    IF groups # None /\ SpanSum(groups.items) # Len(column_names.items)
    THEN Raise("ValueError")
    ELSE Return([kind |-> "TableSchema", column_names |-> column_names, groups |-> groups])

\* The dataclass-generated constructor: stores both fields as given.
TableSchema(column_names, groups) ==
    Return([kind |-> "TableSchema", column_names |-> column_names, groups |-> groups])

\* empty_df with the row test off by one.
empty_df_off_by_one(s, n_rows) ==
    IF ~pandas_installed THEN Raise("ImportError")
    ELSE IF n_rows.v > 1
         THEN Return(PdDataFrame(PyRange(n_rows.v), s.column_names))
         ELSE Return(PdDataFrame(None, s.column_names))

\* TableSchema.empty_df(self, n_rows)
empty_df(s, n_rows) ==
    IF ~pandas_installed THEN Raise("ImportError")
    ELSE IF n_rows.v > 0
         THEN Return(PdDataFrame(PyRange(n_rows.v), s.column_names))
         ELSE Return(PdDataFrame(None, s.column_names))

\* validate_df comparing the labels as sets.
validate_df_unordered(s, df) ==
    IF HasColumns(df)
    THEN LET cols == PyList(df.columns)
         IN  IF cols.tag = "raise" THEN cols
             ELSE Return(PyBool({ cols.value.items[i] : i \in DOMAIN cols.value.items }
                                = { s.column_names.items[i] : i \in DOMAIN s.column_names.items }))
    ELSE Return(PyBool(FALSE))

\* validate_df comparing df.columns to the list without converting it.
validate_df_without_list(s, df) ==
    IF HasColumns(df)
    THEN Return(PyBool(PyEq(df.columns, s.column_names)))
    ELSE Return(PyBool(FALSE))

\* validate_df that also requires the group spans to cover the columns.
validate_df_checking_groups(s, df) ==
    IF HasColumns(df)
    THEN LET cols == PyList(df.columns)
         IN  IF cols.tag = "raise" THEN cols
             ELSE Return(PyBool(/\ PyEq(cols.value, s.column_names)
                                /\ (s.groups # None =>
                                      SpanSum(s.groups.items) = Len(s.column_names.items))))
    ELSE Return(PyBool(FALSE))

\* validate_df that imports pandas first.
validate_df_importing_pandas(s, df) ==
    IF ~pandas_installed THEN Raise("ImportError")
    ELSE IF HasColumns(df)
    THEN LET cols == PyList(df.columns)
         IN  IF cols.tag = "raise" THEN cols
             ELSE Return(PyBool(PyEq(cols.value, s.column_names)))
    ELSE Return(PyBool(FALSE))

\* TableSchema.validate_df(self, df)
validate_df(s, df) ==
    IF HasColumns(df)
    THEN LET cols == PyList(df.columns)
         IN  IF cols.tag = "raise" THEN cols
             ELSE Return(PyBool(PyEq(cols.value, s.column_names)))
    ELSE Return(PyBool(FALSE))

\* __len__ counting the distinct names.
len_of_distinct_names(s) ==
    Return(PyInt(Cardinality({ s.column_names.items[i] : i \in DOMAIN s.column_names.items })))

\* TableSchema.__len__(self)
__len__(s) == Return(PyLen(s.column_names))

\* ----------------------------------------------------------------- actions

Init ==
    /\ self = None
    /\ pandas_installed \in BOOLEAN
    /\ call = Call("start", <<>>)
    /\ result = Return(None)
    /\ last_df = None

\* schema = TableSchema(column_names, groups)
Construct ==
    /\ self = None
    /\ \E c \in ColumnLists, g \in GroupValues :
          LET r == TableSchema(PyListOf(c), g)
          IN  /\ call' = Call("TableSchema", <<PyListOf(c), g>>)
              /\ result' = r
              /\ self' = IF r.tag = "return" THEN r.value ELSE self
    /\ UNCHANGED <<pandas_installed, last_df>>

\* schema.empty_df(n_rows)
EmptyDf ==
    /\ self # None
    /\ \E n \in RowCounts :
          LET r == empty_df(self, PyInt(n))
          IN  /\ call' = Call("empty_df", <<PyInt(n)>>)
              /\ result' = r
              /\ last_df' = IF r.tag = "return" THEN r.value ELSE last_df
    /\ UNCHANGED <<self, pandas_installed>>

\* A validate_df that stores the labels it read in the schema.
ValidateDf_assigning_columns ==
    /\ self # None
    /\ \E df \in ValidateInputs \cup {last_df} :
          /\ call' = Call("validate_df", <<df>>)
          /\ result' = validate_df(self, df)
          /\ self' = IF HasColumns(df) /\ PyList(df.columns).tag = "return"
                     THEN [self EXCEPT !.column_names = PyList(df.columns).value]
                     ELSE self
    /\ UNCHANGED <<pandas_installed, last_df>>

\* schema.validate_df(df), df any value or the DataFrame empty_df returned last
ValidateDf ==
    /\ self # None
    /\ \E df \in ValidateInputs \cup {last_df} :
          /\ call' = Call("validate_df", <<df>>)
          /\ result' = validate_df(self, df)
    /\ UNCHANGED <<self, pandas_installed, last_df>>

\* len(schema)
Length ==
    /\ self # None
    /\ call' = Call("__len__", <<>>)
    /\ result' = __len__(self)
    /\ UNCHANGED <<self, pandas_installed, last_df>>

\* The environment gains pandas between two calls: the import in empty_df is
\* resolved each time empty_df runs.
InstallPandas ==
    /\ ~pandas_installed
    /\ pandas_installed' = TRUE
    /\ call' = Call("install pandas", <<>>)
    /\ result' = Return(None)
    /\ UNCHANGED <<self, last_df>>

Next == Construct \/ EmptyDf \/ ValidateDf \/ Length \/ InstallPandas

Spec == Init /\ [][Next]_vars

\* ------------------------------------------------------------------ claims

\* The argument of the last call, when it took one.
Arg == call.args[1]

\* df exposes an ordered column-label list.
ExposesLabelList(df) == HasColumns(df) /\ df.columns.kind \in {"list", "tuple", "Index"}

\* t is a reordering of s that differs from s.
IsProperPermutation(s, t) ==
    /\ Len(s) = Len(t)
    /\ s # t
    /\ \E f \in [1 .. Len(s) -> 1 .. Len(s)] :
          /\ \A i, j \in 1 .. Len(s) : f[i] = f[j] => i = j
          /\ \A i \in 1 .. Len(s) : t[i] = s[f[i]]

\* C1: for a value that exposes an ordered column-label list, validate_df
\* returns True exactly when that list equals column_names element by
\* element (same names, same order, same length), and False otherwise.
C1_ValidateIffExactMatch ==
    (call.op = "validate_df" /\ ExposesLabelList(Arg)) =>
        result = Return(PyBool(Arg.columns.items = self.column_names.items))

\* C1 witness: a table whose labels are a reordering of column_names was
\* validated and rejected.
C1_Witness ==
    /\ call.op = "validate_df"
    /\ ExposesLabelList(Arg)
    /\ IsProperPermutation(self.column_names.items, Arg.columns.items)
    /\ result = Return(PyBool(FALSE))

\* C2 (as claimed): with pandas importable, empty_df with a negative n_rows
\* raises an invalid-argument error (ValueError) and returns no table.
C2_NegativeRowsRejected ==
    (call.op = "empty_df" /\ pandas_installed /\ Arg.v < 0) =>
        result = Raise("ValueError")

\* C3 (as claimed): validate_df never raises, and returns False for every
\* value that does not expose an ordered column-label list.
C3_ValidateNeverRaises ==
    call.op = "validate_df" =>
        /\ result.tag = "return"
        /\ (~ExposesLabelList(Arg) => result = Return(PyBool(FALSE)))

\* C4: with pandas importable, empty_df(k) for k >= 0 returns a DataFrame whose
\* columns are column_names in order, whose rows are indexed 0..k-1, and whose
\* cells are all empty (NaN).
C4_EmptyDfShape ==
    (call.op = "empty_df" /\ pandas_installed /\ Arg.v >= 0) =>
        /\ result.tag = "return"
        /\ result.value.kind = "DataFrame"
        /\ result.value.columns.items = self.column_names.items
        /\ result.value.index = [i \in 1 .. Arg.v |-> i - 1]
        /\ Len(result.value.values) = Arg.v
        /\ \A r \in 1 .. Arg.v :
              /\ Len(result.value.values[r]) = Len(self.column_names.items)
              /\ \A c \in 1 .. Len(self.column_names.items) :
                    result.value.values[r][c] = "NaN"

\* C4 witness: empty_df returned a table of two rows and two columns.
C4_Witness ==
    /\ call.op = "empty_df"
    /\ pandas_installed
    /\ Arg.v = 2
    /\ Len(self.column_names.items) = 2
    /\ result.tag = "return"
    /\ Len(result.value.index) = 2

\* C5: an ImportError is the outcome only of empty_df called while pandas
\* cannot be imported: never of the constructor, __len__ or validate_df, and
\* never of empty_df when pandas can be imported.
C5_ImportErrorOnlyFromEmptyDf ==
    result = Raise("ImportError") => (call.op = "empty_df" /\ ~pandas_installed)

\* C5 witness: a schema was constructed without pandas, and its empty_df
\* then raised ImportError.
C5_Witness ==
    /\ self # None
    /\ ~pandas_installed
    /\ call.op = "empty_df"
    /\ result = Raise("ImportError")

\* C6: once the schema is constructed, no step changes column_names or groups.
C6_FieldsNeverChange ==
    [][self # None => (/\ self'.column_names = self.column_names
                       /\ self'.groups = self.groups)]_vars

\* C6 witness: empty_df has returned a table and validate_df has rejected a
\* table with other columns, on a constructed schema.
C6_Witness ==
    /\ self # None
    /\ last_df # None
    /\ call.op = "validate_df"
    /\ ExposesLabelList(Arg)
    /\ Arg.columns.items # self.column_names.items

\* The schema with its groups replaced.
WithGroups(s, g) == [s EXCEPT !.groups = g]

\* C7: the outcome of empty_df and of validate_df is the one every schema
\* with the same column_names and any other groups gives on the same argument.
C7_GroupsDoNotMatter ==
    /\ call.op = "empty_df" =>
          \A g \in GroupValues : empty_df(WithGroups(self, g), Arg) = result
    /\ call.op = "validate_df" =>
          \A g \in GroupValues : validate_df(WithGroups(self, g), Arg) = result

\* C7 witness: a schema whose groups do not cover its columns accepted a table.
C7_Witness ==
    /\ call.op = "validate_df"
    /\ self.groups # None
    /\ SpanSum(self.groups.items) # Len(self.column_names.items)
    /\ result = Return(PyBool(TRUE))

\* C8: constructing a schema returns an instance holding column_names and
\* groups as given, whatever the spans of groups are.
C8_ConstructionNeverFails ==
    call.op = "TableSchema" =>
        /\ result.tag = "return"
        /\ self = result.value
        /\ self.column_names = call.args[1]
        /\ self.groups = call.args[2]

\* C8 witness: a schema was constructed whose group spans do not sum to its
\* number of columns.
C8_Witness ==
    /\ call.op = "TableSchema"
    /\ self # None
    /\ self.groups # None
    /\ self.groups.items # <<>>
    /\ SpanSum(self.groups.items) # Len(self.column_names.items)

\* C9: __len__ returns the length of column_names, and never raises.
C9_LenIsColumnCount ==
    call.op = "__len__" => result = Return(PyInt(Len(self.column_names.items)))

\* C9 witness: the length of a schema with a repeated name was taken.
C9_Witness ==
    /\ call.op = "__len__"
    /\ self.column_names.items = <<"A", "A">>
    /\ result = Return(PyInt(2))

\* C10: validate_df applied to the table the same schema's empty_df returned
\* is True.
C10_RoundTrip ==
    (call.op = "validate_df" /\ last_df # None /\ Arg = last_df) =>
        result = Return(PyBool(TRUE))

\* C10 witness: a table with rows and a repeated column name, returned by
\* empty_df, was validated by the schema that made it.
C10_Witness ==
    /\ call.op = "validate_df"
    /\ last_df # None
    /\ Arg = last_df
    /\ Len(last_df.index) > 0
    /\ self.column_names.items = <<"A", "A">>
    /\ result = Return(PyBool(TRUE))

====
